---- MODULE Spec2Model ----
(***************************************************************************)
(* The virtual try-on state machine of App.tsx: the outfit history, its    *)
(* cursor, the pose cursor, the busy flag and the error slot, driven by    *)
(* the handlers of App.tsx and the components that invoke them, with the   *)
(* remote generation calls as records that are in flight between the      *)
(* handler's await and its continuation.                                   *)
(*                                                                         *)
(* React semantics that the model keeps:                                   *)
(*  - a handler reads the state of the render that created it.  A click    *)
(*    handler runs against the current render, so it reads the current     *)
(*    state; the continuation after an await keeps reading the values the  *)
(*    handler captured (currentOutfitIndex, currentPoseIndex, ...);        *)
(*  - a functional update setX(prev => ...) reads the state at the time    *)
(*    the update is applied;                                               *)
(*  - WardrobePanel.handleGarmentClick awaits urlToFile before it calls    *)
(*    the onGarmentSelect of its own render, so that handleGarmentSelect   *)
(*    runs later against the values captured at the click.                 *)
(*                                                                         *)
(* Indices are 0-based as in the source: layer i of a history h is h[i+1]. *)
(* Left out: loadingMessage, isSheetCollapsed, the wardrobe list (every    *)
(* garment is taken to be in the fetched wardrobe), analytics, sharing.    *)
(***************************************************************************)
EXTENDS Integers, Sequences, FiniteSets, TLC

\* ---------------------------------------------------------------- bounds
\* Remote generation calls issued in one behaviour.
MaxCalls == 4
\* handleGarmentClick invocations that may be awaiting urlToFile at once.
MaxClicks == 1
\* The same, in the specification of the garment operations alone.
MaxQuickClicks == 2
\* Garments in the wardrobe.
NumGarments == 2
\* Length of POSE_INSTRUCTIONS considered (the source lists six).
NumPoses == 3
\* Entries of one layer's poseImages among the inputs of displayImageUrl.
MaxPoseEntries == 2
\* Fragments of one error message among the inputs of the classifier.
MaxMessageTokens == 2

Garments == 1..NumGarments
Poses == 0..(NumPoses - 1)

\* null / undefined for an image reference, a garment and the error slot.
NoImage == 0
NoGarment == 0
NoError == "null"

\* The image a remote call returns, one or two per call id.
BaseImageOf(id) == 2 * id - 1
ResultImageOf(id) == 2 * id

VARIABLES
    modelImageUrl,        \* string | null
    outfitHistory,        \* OutfitLayer[]
    currentOutfitIndex,
    isLoading,
    error,                \* string | null
    currentPoseIndex,
    pendingGarment,       \* WardrobeItem | null
    isUploadModalOpen,
    calls,                \* the remote calls in flight, with what their continuation captured
    clicks,               \* handleGarmentClick invocations awaiting urlToFile
    issued,               \* number of remote calls issued so far
    lastOp,               \* trace: the handler or continuation that ran last
    currentPage,          \* Page
    previousPage,         \* Page
    pdpItem,              \* WardrobeItem | null
    shareId,              \* whether a share id is set
    location,             \* window.location
    wishlist              \* string[]

tryOnVars == <<modelImageUrl, outfitHistory, currentOutfitIndex, isLoading, error,
               currentPoseIndex, pendingGarment, isUploadModalOpen, calls, clicks,
               issued, lastOp>>
siteVars == <<currentPage, previousPage, pdpItem, shareId, location, wishlist>>
vars == <<tryOnVars, siteVars>>

\* ------------------------------------------------------- pure functions

Min(a, b) == IF a < b THEN a ELSE b

\* Array.prototype.slice(0, n)
Slice(h, n) == SubSeq(h, 1, Min(n, Len(h)))

\* h[i] of the source: defined iff 0 <= i < h.length
HasLayer(h, i) == i >= 0 /\ i < Len(h)
LayerAt(h, i) == h[i + 1]

\* poseImages is an object keyed by pose instruction; Object.keys keeps the
\* insertion order, so it is a sequence of entries here.
HasPose(pi, p) == \E k \in 1..Len(pi) : pi[k].pose = p
PosePos(pi, p) == CHOOSE k \in 1..Len(pi) : pi[k].pose = p
PoseEntry(pi, p) == pi[PosePos(pi, p)]

NewPoseImage(p, img) == [pose |-> p, standard |-> img, enhanced |-> NoImage]

\* { ...layer.poseImages, [poseInstruction]: { standard: newImageUrl } }
PatchPose(pi, p, img) ==
    IF HasPose(pi, p)
    THEN [pi EXCEPT ![PosePos(pi, p)] = NewPoseImage(p, img)]
    ELSE Append(pi, NewPoseImage(p, img))

\* const poseToUpdate = updatedPoseImages[poseInstruction];
\* if (poseToUpdate) updatedPoseImages[poseInstruction] = { ...poseToUpdate, enhanced }
PatchEnhanced(pi, p, img) ==
    IF HasPose(pi, p)
    THEN [pi EXCEPT ![PosePos(pi, p)].enhanced = img]
    ELSE pi

BaseLayer(img) == [garment |-> NoGarment, poseImages |-> <<NewPoseImage(0, img)>>]
\* Mutant of GarmentLayer: the new layer is created without its first image.
GarmentLayer_NoPoseImage(g, p, img) == [garment |-> g, poseImages |-> <<>>]
GarmentLayer(g, p, img) == [garment |-> g, poseImages |-> <<NewPoseImage(p, img)>>]

\* a ?? b
Nullish(a, b) == IF a # NoImage THEN a ELSE b

\* Mutant of DisplayImage: the fallbackPose step is missing, a pose the layer
\* lacks falls through to the model image.
DisplayImage_NoFallbackPose(model, h, idx, pose) ==
    IF Len(h) = 0 THEN model
    ELSE IF ~HasLayer(h, idx) THEN model
    ELSE LET pi == LayerAt(h, idx).poseImages
             enh == IF HasPose(pi, pose) THEN PoseEntry(pi, pose).enhanced ELSE NoImage
             std == IF HasPose(pi, pose) THEN PoseEntry(pi, pose).standard ELSE NoImage
         IN  Nullish(enh, Nullish(std, model))

\* displayImageUrl (useMemo)
DisplayImage(model, h, idx, pose) ==
    IF Len(h) = 0 THEN model
    ELSE IF ~HasLayer(h, idx) THEN model
    ELSE LET pi == LayerAt(h, idx).poseImages
             enh == IF HasPose(pi, pose) THEN PoseEntry(pi, pose).enhanced ELSE NoImage
             std == IF HasPose(pi, pose) THEN PoseEntry(pi, pose).standard ELSE NoImage
             fb  == IF Len(pi) > 0 THEN pi[1].standard ELSE NoImage
         IN  Nullish(enh, Nullish(std, Nullish(fb, model)))

displayImageUrl == DisplayImage(modelImageUrl, outfitHistory, currentOutfitIndex, currentPoseIndex)

\* activeOutfitLayers / activeGarmentIds (useMemo)
activeOutfitLayers == Slice(outfitHistory, currentOutfitIndex + 1)
activeGarmentIds ==
    {activeOutfitLayers[k].garment : k \in 1..Len(activeOutfitLayers)} \ {NoGarment}

\* isEnhanced (useMemo)
isEnhanced ==
    /\ Len(outfitHistory) # 0
    /\ HasLayer(outfitHistory, currentOutfitIndex)
    /\ HasPose(LayerAt(outfitHistory, currentOutfitIndex).poseImages, currentPoseIndex)
    /\ PoseEntry(LayerAt(outfitHistory, currentOutfitIndex).poseImages, currentPoseIndex).enhanced # NoImage

\* ---------------------------------------------------- error messages
\* A message is a sequence of fragments.  The fragments are the seven
\* substrings the classifier looks for, each as written in lower case and in
\* another casing, and three fragments that contain none of them.
MessageTokens ==
    {"quota", "Quota", "rate limit", "Rate Limit", "429",
     "unsupported mime type", "Unsupported MIME type: image/x",
     "blocked", "Blocked", "safety", "SAFETY",
     "model did not return an image", "Model did not return an image",
     "other", "Error: ", "An unknown error occurred."}

\* String.prototype.toLowerCase on one fragment and on a message.
LowerCaseOf ==
    [t \in MessageTokens |->
        CASE t = "Quota" -> "quota"
          [] t = "Rate Limit" -> "rate limit"
          [] t = "Unsupported MIME type: image/x" -> "unsupported mime type"
          [] t = "Blocked" -> "blocked"
          [] t = "SAFETY" -> "safety"
          [] t = "Model did not return an image" -> "model did not return an image"
          [] t = "Error: " -> "error: "
          [] t = "An unknown error occurred." -> "an unknown error occurred."
          [] OTHER -> t]
LowerToken(t) == LowerCaseOf[t]
toLowerCase(msg) == [i \in 1..Len(msg) |-> LowerToken(msg[i])]

\* String.prototype.includes, at the granularity of fragments.
includes(msg, needle) == \E i \in 1..Len(msg) : msg[i] = needle

\* A thrown value is a record of its type ("Error" with its message, "string",
\* "object" for another truthy value with its String(), "nullish") and text.
\* String(err), which the handlers of App.tsx apply before classifying:
StringOf(err) ==
    IF err.type = "Error" THEN <<"Error: ">> \o err.text
    ELSE IF err.type = "nullish" THEN <<"other">>
    ELSE err.text
AsString(err) == [type |-> "string", text |-> StringOf(err)]

\* The value the remote calls of the state machine reject with.
RawErrors == {[type |-> "Error", text |-> <<"429">>]}

\* Mutant of getFriendlyErrorMessage: the substring tests run on the raw
\* message, not on its lower-case form.
getFriendlyErrorMessage_CaseSensitive(err, context) ==
    LET rawMessage ==
            IF err.type \in {"Error", "string"} THEN err.text
            ELSE IF err.type = "object" THEN err.text
            ELSE <<"An unknown error occurred.">>
        lowerCaseMessage == rawMessage
    IN  IF \/ includes(lowerCaseMessage, "quota")
           \/ includes(lowerCaseMessage, "rate limit")
           \/ includes(lowerCaseMessage, "429")
        THEN "high demand"
        ELSE IF includes(lowerCaseMessage, "unsupported mime type")
        THEN IF includes(rawMessage, "Unsupported MIME type: image/x")
             THEN "'image/x' is not supported"
             ELSE "this file type is not supported"
        ELSE IF includes(lowerCaseMessage, "blocked") \/ includes(lowerCaseMessage, "safety")
        THEN "blocked for safety"
        ELSE IF includes(lowerCaseMessage, "model did not return an image")
        THEN "could not create an image"
        ELSE context

\* getFriendlyErrorMessage(error, context); the returned texts are shortened,
\* the fallback text is the one built from the context.
getFriendlyErrorMessage(err, context) ==
    LET rawMessage ==
            IF err.type \in {"Error", "string"} THEN err.text
            ELSE IF err.type = "object" THEN err.text
            ELSE <<"An unknown error occurred.">>
        lowerCaseMessage == toLowerCase(rawMessage)
    IN  IF \/ includes(lowerCaseMessage, "quota")
           \/ includes(lowerCaseMessage, "rate limit")
           \/ includes(lowerCaseMessage, "429")
        THEN "high demand"
        ELSE IF includes(lowerCaseMessage, "unsupported mime type")
        THEN IF includes(rawMessage, "Unsupported MIME type: image/x")
             THEN "'image/x' is not supported"
             ELSE "this file type is not supported"
        ELSE IF includes(lowerCaseMessage, "blocked") \/ includes(lowerCaseMessage, "safety")
        THEN "blocked for safety"
        ELSE IF includes(lowerCaseMessage, "model did not return an image")
        THEN "could not create an image"
        ELSE context

\* The try-on screen is rendered iff modelImageUrl is set (no share id).
TryOnScreen == modelImageUrl # NoImage

\* ------------------------------------------------- main-site navigation

Pages == {"home", "women", "men", "pdp", "about", "privacy", "terms", "wishlist"}
NoProduct == 0
\* The product ids a URL can carry: the wardrobe's and one it does not hold.
UrlProducts == Garments \cup {NumGarments + 1}
Hashes == {"", "#/", "#/women", "#/men", "#/wishlist", "#/about", "#/privacy",
           "#/terms", "#undefined"}
\* window.location: the product and share search parameters and the hash.
Locations ==
    [product : {NoProduct} \cup UrlProducts, share : BOOLEAN, hash : Hashes]

\* pageToPath[page]; 'pdp' has no entry and the hash becomes '#undefined'.
pageToPath(page) ==
    CASE page = "home" -> "#/"
      [] page = "women" -> "#/women"
      [] page = "men" -> "#/men"
      [] page = "wishlist" -> "#/wishlist"
      [] page = "about" -> "#/about"
      [] page = "privacy" -> "#/privacy"
      [] page = "terms" -> "#/terms"
      [] OTHER -> "#undefined"

\* pathToPage[hash ? hash.substring(1) : '/'] || 'home'
pathToPage(hash) ==
    CASE hash = "#/women" -> "women"
      [] hash = "#/men" -> "men"
      [] hash = "#/wishlist" -> "wishlist"
      [] hash = "#/about" -> "about"
      [] hash = "#/privacy" -> "privacy"
      [] hash = "#/terms" -> "terms"
      [] OTHER -> "home"

\* The navigation state of the current render.
Site ==
    [currentPage |-> currentPage, previousPage |-> previousPage,
     pdpItem |-> pdpItem, shareId |-> shareId, location |-> location]

SetSite(s) ==
    /\ currentPage' = s.currentPage
    /\ previousPage' = s.previousPage
    /\ pdpItem' = s.pdpItem
    /\ shareId' = s.shareId
    /\ location' = s.location

\* The application loaded on its home URL.
InitSite ==
    /\ currentPage = "home"
    /\ previousPage = "home"
    /\ pdpItem = NoProduct
    /\ shareId = FALSE
    /\ location = [product |-> NoProduct, share |-> FALSE, hash |-> "#/"]

\* The body of handleNavigate(page) on navigation state s.
Navigated(s, page) ==
    [currentPage |-> page,
     previousPage |-> IF page \notin {"pdp", "about", "privacy", "terms", "wishlist"}
                      THEN page ELSE s.previousPage,
     pdpItem |-> NoProduct,
     shareId |-> FALSE,
     location |-> [product |-> NoProduct, share |-> FALSE, hash |-> pageToPath(page)]]

\* The body of handleProductSelect(item) on navigation state s.
ProductSelected(s, item) ==
    [currentPage |-> "pdp",
     previousPage |-> IF s.currentPage # "pdp" THEN s.currentPage ELSE s.previousPage,
     pdpItem |-> item,
     shareId |-> s.shareId,
     location |-> [product |-> item, share |-> s.location.share, hash |-> ""]]

\* The body of handleRouting once window.location is url.
Routed(s, url) ==
    IF url.share
    THEN [s EXCEPT !.location = url, !.shareId = TRUE, !.pdpItem = NoProduct,
                   !.currentPage = "home"]
    ELSE IF url.product # NoProduct
    THEN [s EXCEPT !.location = url, !.shareId = FALSE, !.currentPage = "pdp"]
    ELSE [s EXCEPT !.location = url, !.shareId = FALSE, !.pdpItem = NoProduct,
                   !.currentPage = pathToPage(url.hash)]

\* The effect that loads the product on a PDP route, with the wardrobe
\* fetched: it runs after the render that follows every state change.
PdpLoadEffect(s) ==
    IF s.currentPage = "pdp" /\ s.location.product # NoProduct
    THEN IF s.pdpItem = s.location.product
         THEN s
         ELSE IF s.location.product \in Garments
         THEN [s EXCEPT !.previousPage =
                            IF s.previousPage # "pdp" /\ s.currentPage # s.previousPage
                            THEN (IF s.currentPage = "pdp" THEN "home" ELSE s.currentPage)
                            ELSE @,
                        !.pdpItem = s.location.product]
         ELSE Navigated(s, "home")
    ELSE s

\* handleNavigate(page), from the header, the footer, the pages' links and
\* the Back buttons.
handleNavigate(page) ==
    /\ SetSite(PdpLoadEffect(Navigated(Site, page)))
    /\ UNCHANGED wishlist

\* handleProductSelect(item), from the home, collection and wishlist pages,
\* the product-details page and the search modal of the header.
handleProductSelect(item) ==
    /\ ~shareId
    /\ SetSite(PdpLoadEffect(ProductSelected(Site, item)))
    /\ UNCHANGED wishlist

\* handleRouting on load, hashchange and popstate: the browser has moved
\* window.location to url.
handleRouting(url) ==
    /\ SetSite(PdpLoadEffect(Routed(Site, url)))
    /\ UNCHANGED wishlist

\* The pages that render a Back button; the product-details page renders
\* only with a product loaded.
BackShown ==
    /\ ~shareId
    /\ \/ currentPage \in {"about", "privacy", "terms"}
       \/ currentPage = "pdp" /\ pdpItem # NoProduct

\* onNavigateBack / onBack: () => handleNavigate(previousPage)
Back == BackShown /\ handleNavigate(previousPage)

\* ------------------------------------------------------------- wishlist

NumWishlistIds == 5
MaxStoredWishlist == 2
WishlistIds == 1..NumWishlistIds

includesId(list, productId) == \E i \in 1..Len(list) : list[i] = productId
filterOut(list, productId) == SelectSeq(list, LAMBDA id : id # productId)

\* The updater handed to setWishlist with the membership test dropped.
toggleWishlistUpdater_AlwaysAdds(prev, productId) ==
    Append(prev, productId)
\* The updater toggleWishlist hands to setWishlist.
toggleWishlistUpdater(prev, productId) ==
    IF ~includesId(prev, productId)
    THEN Append(prev, productId)
    ELSE filterOut(prev, productId)

toggleWishlist(productId) ==
    /\ wishlist' = toggleWishlistUpdater(wishlist, productId)
    /\ UNCHANGED <<currentPage, previousPage, pdpItem, shareId, location>>

\* ---------------------------------------------------------------- Init

Init ==
    /\ modelImageUrl = NoImage
    /\ outfitHistory = <<>>
    /\ currentOutfitIndex = 0
    /\ isLoading = FALSE
    /\ error = NoError
    /\ currentPoseIndex = 0
    /\ pendingGarment = NoGarment
    /\ isUploadModalOpen = FALSE
    /\ calls = {}
    /\ clicks = <<>>
    /\ issued = 0
    /\ lastOp = "init"
    /\ InitSite
    /\ wishlist = <<>>

\* ------------------------------------------------------------- actions

\* What the handleGarmentSelect of the current render closes over and reads:
\* of outfitHistory it reads outfitHistory[currentOutfitIndex + 1].garment only
\* (nextGarment, NoGarment when that layer is absent or the base layer).
Snapshot ==
    [displayImageUrl |-> displayImageUrl, isLoading |-> isLoading,
     nextGarment |-> IF HasLayer(outfitHistory, currentOutfitIndex + 1)
                     THEN LayerAt(outfitHistory, currentOutfitIndex + 1).garment
                     ELSE NoGarment,
     currentOutfitIndex |-> currentOutfitIndex,
     currentPoseIndex |-> currentPoseIndex]

\* handleStartOver (the Canvas button carries no disabled attribute)
handleStartOver ==
    /\ TryOnScreen
    /\ modelImageUrl' = NoImage
    /\ outfitHistory' = <<>>
    /\ currentOutfitIndex' = 0
    /\ isLoading' = FALSE
    /\ error' = NoError
    /\ currentPoseIndex' = 0
    /\ lastOp' = "startOver"
    /\ handleNavigate("home")
    /\ UNCHANGED <<pendingGarment, isUploadModalOpen, calls, clicks, issued>>

\* handleRemoveLastGarment.  outfitHistory[currentOutfitIndex].garment is
\* evaluated for the analytics event before the setters run: with no layer
\* under the cursor it throws and nothing is set.
handleRemoveLastGarment ==
    /\ TryOnScreen
    /\ IF currentOutfitIndex > 0 /\ HasLayer(outfitHistory, currentOutfitIndex)
       THEN /\ currentOutfitIndex' = currentOutfitIndex - 1
            /\ currentPoseIndex' = 0
            /\ lastOp' = "remove"
       ELSE /\ UNCHANGED <<currentOutfitIndex, currentPoseIndex>>
            /\ lastOp' = IF currentOutfitIndex > 0 THEN "remove:throw" ELSE "remove:noop"
    /\ UNCHANGED <<modelImageUrl, outfitHistory, isLoading, error, pendingGarment,
                   isUploadModalOpen, calls, clicks, issued>>

\* WardrobePanel.handleGarmentClick up to its await: the button is disabled
\* while isLoading or while the item is active, and the handler checks again.
handleGarmentClick(item) ==
    /\ TryOnScreen
    /\ ~(isLoading \/ item \in activeGarmentIds)
    /\ clicks' = Append(clicks, [item |-> item, cap |-> Snapshot])
    /\ lastOp' = "click"
    /\ UNCHANGED <<modelImageUrl, outfitHistory, currentOutfitIndex, isLoading, error,
                   currentPoseIndex, pendingGarment, isUploadModalOpen, calls, issued>>

RemoveAt(s, k) == SubSeq(s, 1, k - 1) \o SubSeq(s, k + 1, Len(s))

\* handleGarmentSelect(garmentFile, garmentInfo) run against the captured
\* render `cap`; the functional update of the cursor reads the live state.
handleGarmentSelect(cap, item) ==
    IF cap.displayImageUrl = NoImage \/ cap.isLoading
    THEN /\ lastOp' = "garment:rejected"
         /\ UNCHANGED <<currentOutfitIndex, currentPoseIndex, error, isLoading, calls, issued>>
    ELSE IF cap.nextGarment = item
    THEN /\ currentOutfitIndex' = currentOutfitIndex + 1
         /\ currentPoseIndex' = 0
         /\ lastOp' = "garment:redo"
         /\ UNCHANGED <<error, isLoading, calls, issued>>
    ELSE /\ issued < MaxCalls
         /\ error' = NoError
         /\ isLoading' = TRUE
         /\ issued' = issued + 1
         /\ calls' = calls \cup {[id |-> issued + 1, kind |-> "garment", garment |-> item,
                                  index |-> cap.currentOutfitIndex,
                                  pose |-> cap.currentPoseIndex,
                                  prevPose |-> cap.currentPoseIndex,
                                  input |-> cap.displayImageUrl,
                                  liveIndex |-> currentOutfitIndex,
                                  livePose |-> currentPoseIndex]}
         /\ lastOp' = "garment:call"
         /\ UNCHANGED <<currentOutfitIndex, currentPoseIndex>>

\* urlToFile resolves: handleGarmentClick calls the onGarmentSelect it captured.
GarmentFileLoaded(k) ==
    /\ k \in 1..Len(clicks)
    /\ clicks' = RemoveAt(clicks, k)
    /\ handleGarmentSelect(clicks[k].cap, clicks[k].item)
    /\ UNCHANGED <<modelImageUrl, outfitHistory, pendingGarment, isUploadModalOpen>>

\* urlToFile rejects: handleGarmentClick sets the panel's own error only.
GarmentFileFailed(k) ==
    /\ k \in 1..Len(clicks)
    /\ clicks' = RemoveAt(clicks, k)
    /\ lastOp' = "click:failed"
    /\ UNCHANGED <<modelImageUrl, outfitHistory, currentOutfitIndex, isLoading, error,
                   currentPoseIndex, pendingGarment, isUploadModalOpen, calls, issued>>

\* Mutant of GarmentCallDone: the commit of the new layer also resets the
\* pose cursor to 0.
GarmentCallDone_ResetsPose(c, ok, raw) ==
    /\ c \in calls /\ c.kind = "garment"
    /\ calls' = calls \ {c}
    /\ IF ok
       THEN /\ outfitHistory' = Append(Slice(outfitHistory, c.index + 1),
                                       GarmentLayer(c.garment, c.pose, ResultImageOf(c.id)))
            /\ currentOutfitIndex' = currentOutfitIndex + 1
            /\ currentPoseIndex' = 0
            /\ lastOp' = "garment:ok"
            /\ UNCHANGED error
       ELSE /\ lastOp' = "garment:failed"
            /\ error' = getFriendlyErrorMessage(AsString(raw), "failed to apply garment")
            /\ UNCHANGED <<outfitHistory, currentOutfitIndex, currentPoseIndex>>
    /\ isLoading' = FALSE
    /\ UNCHANGED <<modelImageUrl, pendingGarment, isUploadModalOpen, clicks, issued>>

\* The continuation of handleGarmentSelect after generateVirtualTryOnImage.
GarmentCallDone(c, ok, raw) ==
    /\ c \in calls /\ c.kind = "garment"
    /\ calls' = calls \ {c}
    /\ IF ok
       THEN /\ outfitHistory' = Append(Slice(outfitHistory, c.index + 1),
                                       GarmentLayer(c.garment, c.pose, ResultImageOf(c.id)))
            /\ currentOutfitIndex' = currentOutfitIndex + 1
            /\ lastOp' = "garment:ok"
            /\ UNCHANGED error
       ELSE /\ lastOp' = "garment:failed"
            /\ error' = getFriendlyErrorMessage(AsString(raw), "failed to apply garment")
            /\ UNCHANGED <<outfitHistory, currentOutfitIndex>>
    /\ isLoading' = FALSE
    /\ UNCHANGED <<modelImageUrl, currentPoseIndex, pendingGarment, isUploadModalOpen,
                   clicks, issued>>

\* Mutant of handlePoseSelect: the cache-hit test is missing, every selection
\* of another pose goes to the remote call.
handlePoseSelect_NoCacheHit(newIndex) ==
    /\ TryOnScreen
    /\ IF isLoading \/ Len(outfitHistory) = 0 \/ newIndex = currentPoseIndex
       THEN /\ lastOp' = "pose:rejected"
            /\ UNCHANGED <<currentPoseIndex, error, isLoading, calls, issued>>
       ELSE IF ~HasLayer(outfitHistory, currentOutfitIndex)
       THEN /\ lastOp' = "pose:throw"
            /\ UNCHANGED <<currentPoseIndex, error, isLoading, calls, issued>>
       ELSE IF displayImageUrl = NoImage
       THEN /\ lastOp' = "pose:rejected"
            /\ UNCHANGED <<currentPoseIndex, error, isLoading, calls, issued>>
       ELSE /\ issued < MaxCalls
            /\ error' = NoError
            /\ isLoading' = TRUE
            /\ currentPoseIndex' = newIndex
            /\ issued' = issued + 1
            /\ calls' = calls \cup {[id |-> issued + 1, kind |-> "pose", garment |-> NoGarment,
                                     index |-> currentOutfitIndex, pose |-> newIndex,
                                     prevPose |-> currentPoseIndex,
                                     input |-> displayImageUrl,
                                     liveIndex |-> currentOutfitIndex,
                                     livePose |-> currentPoseIndex]}
            /\ lastOp' = "pose:call"
    /\ UNCHANGED <<modelImageUrl, outfitHistory, currentOutfitIndex, pendingGarment,
                   isUploadModalOpen, clicks>>

\* handlePoseSelect(newIndex) up to its await.  currentLayer.poseImages throws
\* when no layer is under the cursor, before any setter has run.
handlePoseSelect(newIndex) ==
    /\ TryOnScreen
    /\ IF isLoading \/ Len(outfitHistory) = 0 \/ newIndex = currentPoseIndex
       THEN /\ lastOp' = "pose:rejected"
            /\ UNCHANGED <<currentPoseIndex, error, isLoading, calls, issued>>
       ELSE IF ~HasLayer(outfitHistory, currentOutfitIndex)
       THEN /\ lastOp' = "pose:throw"
            /\ UNCHANGED <<currentPoseIndex, error, isLoading, calls, issued>>
       ELSE IF HasPose(LayerAt(outfitHistory, currentOutfitIndex).poseImages, newIndex)
       THEN /\ currentPoseIndex' = newIndex
            /\ lastOp' = "pose:hit"
            /\ UNCHANGED <<error, isLoading, calls, issued>>
       ELSE IF displayImageUrl = NoImage
       THEN /\ lastOp' = "pose:rejected"
            /\ UNCHANGED <<currentPoseIndex, error, isLoading, calls, issued>>
       ELSE /\ issued < MaxCalls
            /\ error' = NoError
            /\ isLoading' = TRUE
            /\ currentPoseIndex' = newIndex
            /\ issued' = issued + 1
            /\ calls' = calls \cup {[id |-> issued + 1, kind |-> "pose", garment |-> NoGarment,
                                     index |-> currentOutfitIndex, pose |-> newIndex,
                                     prevPose |-> currentPoseIndex,
                                     input |-> displayImageUrl,
                                     liveIndex |-> currentOutfitIndex,
                                     livePose |-> currentPoseIndex]}
            /\ lastOp' = "pose:call"
    /\ UNCHANGED <<modelImageUrl, outfitHistory, currentOutfitIndex, pendingGarment,
                   isUploadModalOpen, clicks>>

\* prevHistory.map((layer, index) => index !== i ? layer : patched layer)
MapPoseLayer(h, i, p, img) ==
    [k \in 1..Len(h) |->
        IF k - 1 # i THEN h[k]
        ELSE [h[k] EXCEPT !.poseImages = PatchPose(@, p, img)]]
MapEnhancedLayer(h, i, p, img) ==
    [k \in 1..Len(h) |->
        IF k - 1 # i THEN h[k]
        ELSE [h[k] EXCEPT !.poseImages = PatchEnhanced(@, p, img)]]

\* Mutant of PoseCallDone: setIsLoading(false) sits at the end of the try
\* block, not in a finally block, so that a failure leaves isLoading set.
PoseCallDone_NoFinally(c, ok, raw) ==
    /\ c \in calls /\ c.kind = "pose"
    /\ calls' = calls \ {c}
    /\ IF ok
       THEN /\ outfitHistory' =
                   MapPoseLayer(outfitHistory, c.index, c.pose, ResultImageOf(c.id))
            /\ isLoading' = FALSE
            /\ lastOp' = "pose:ok"
            /\ UNCHANGED <<error, currentPoseIndex>>
       ELSE /\ lastOp' = "pose:failed"
            /\ error' = getFriendlyErrorMessage(AsString(raw), "failed to change pose")
            /\ currentPoseIndex' = c.prevPose
            /\ UNCHANGED <<outfitHistory, isLoading>>
    /\ UNCHANGED <<modelImageUrl, currentOutfitIndex, pendingGarment, isUploadModalOpen,
                   clicks, issued>>

\* The continuation of handlePoseSelect after generatePoseVariation.
PoseCallDone(c, ok, raw) ==
    /\ c \in calls /\ c.kind = "pose"
    /\ calls' = calls \ {c}
    /\ IF ok
       THEN /\ outfitHistory' =
                   MapPoseLayer(outfitHistory, c.index, c.pose, ResultImageOf(c.id))
            /\ lastOp' = "pose:ok"
            /\ UNCHANGED <<error, currentPoseIndex>>
       ELSE /\ lastOp' = "pose:failed"
            /\ error' = getFriendlyErrorMessage(AsString(raw), "failed to change pose")
            /\ currentPoseIndex' = c.prevPose
            /\ UNCHANGED outfitHistory
    /\ isLoading' = FALSE
    /\ UNCHANGED <<modelImageUrl, currentOutfitIndex, pendingGarment, isUploadModalOpen,
                   clicks, issued>>

\* handleEnhanceImage up to its await.
handleEnhanceImage ==
    /\ TryOnScreen
    /\ IF displayImageUrl = NoImage \/ isLoading
       THEN /\ lastOp' = "enhance:rejected"
            /\ UNCHANGED <<error, isLoading, calls, issued>>
       ELSE IF ~HasLayer(outfitHistory, currentOutfitIndex)
       THEN /\ lastOp' = "enhance:throw"
            /\ UNCHANGED <<error, isLoading, calls, issued>>
       ELSE IF isEnhanced
       THEN /\ lastOp' = "enhance:rejected"
            /\ UNCHANGED <<error, isLoading, calls, issued>>
       ELSE /\ issued < MaxCalls
            /\ error' = NoError
            /\ isLoading' = TRUE
            /\ issued' = issued + 1
            /\ calls' = calls \cup {[id |-> issued + 1, kind |-> "enhance", garment |-> NoGarment,
                                     index |-> currentOutfitIndex, pose |-> currentPoseIndex,
                                     prevPose |-> currentPoseIndex,
                                     input |-> displayImageUrl,
                                     liveIndex |-> currentOutfitIndex,
                                     livePose |-> currentPoseIndex]}
            /\ lastOp' = "enhance:call"
    /\ UNCHANGED <<modelImageUrl, outfitHistory, currentOutfitIndex, currentPoseIndex,
                   pendingGarment, isUploadModalOpen, clicks>>

\* The continuation of handleEnhanceImage after enhanceImageQuality.
EnhanceCallDone(c, ok, raw) ==
    /\ c \in calls /\ c.kind = "enhance"
    /\ calls' = calls \ {c}
    /\ IF ok
       THEN /\ outfitHistory' =
                   MapEnhancedLayer(outfitHistory, c.index, c.pose, ResultImageOf(c.id))
            /\ lastOp' = "enhance:ok"
            /\ UNCHANGED error
       ELSE /\ lastOp' = "enhance:failed"
            /\ error' = getFriendlyErrorMessage(AsString(raw), "failed to enhance image")
            /\ UNCHANGED outfitHistory
    /\ isLoading' = FALSE
    /\ UNCHANGED <<modelImageUrl, currentOutfitIndex, currentPoseIndex, pendingGarment,
                   isUploadModalOpen, clicks, issued>>

\* Header "try on" button: onTryOnCtaClick (the main site is rendered while
\* modelImageUrl is null; the open modal covers the page).
OpenUploadModal ==
    /\ ~TryOnScreen /\ ~isUploadModalOpen
    /\ isUploadModalOpen' = TRUE
    /\ lastOp' = "openModal"
    /\ UNCHANGED <<modelImageUrl, outfitHistory, currentOutfitIndex, isLoading, error,
                   currentPoseIndex, pendingGarment, calls, clicks, issued>>

\* handleTryOnFromPdp(item)
handleTryOnFromPdp(item) ==
    /\ ~TryOnScreen /\ ~isUploadModalOpen
    /\ pendingGarment' = item
    /\ isUploadModalOpen' = TRUE
    /\ lastOp' = "tryOnFromPdp"
    /\ UNCHANGED <<modelImageUrl, outfitHistory, currentOutfitIndex, isLoading, error,
                   currentPoseIndex, calls, clicks, issued>>

\* UploadModelModal onClose (not offered while isLoading)
CloseUploadModal ==
    /\ ~TryOnScreen /\ isUploadModalOpen /\ ~isLoading
    /\ isUploadModalOpen' = FALSE
    /\ pendingGarment' = NoGarment
    /\ error' = NoError
    /\ lastOp' = "closeModal"
    /\ UNCHANGED <<modelImageUrl, outfitHistory, currentOutfitIndex, isLoading,
                   currentPoseIndex, calls, clicks, issued>>

\* handleFileSelectForTryOn up to its await; the modal shows the file input
\* only while isLoading is false, the handler itself has no guard.  urlToFile
\* and generateInitialTryOn are awaited back to back with no state change in
\* between and share the catch block: one call record stands for both.
handleFileSelectForTryOn ==
    /\ ~TryOnScreen /\ isUploadModalOpen /\ ~isLoading
    /\ issued < MaxCalls
    /\ error' = NoError
    /\ isLoading' = TRUE
    /\ issued' = issued + 1
    /\ calls' = calls \cup {[id |-> issued + 1, kind |-> "create", garment |-> pendingGarment,
                             index |-> 0, pose |-> 0, prevPose |-> 0, input |-> NoImage,
                             liveIndex |-> currentOutfitIndex,
                             livePose |-> currentPoseIndex]}
    /\ lastOp' = "create:call"
    /\ UNCHANGED <<modelImageUrl, outfitHistory, currentOutfitIndex, currentPoseIndex,
                   pendingGarment, isUploadModalOpen, clicks>>

\* handleModelFinalized(url)
handleModelFinalized(url) ==
    /\ modelImageUrl' = url
    /\ outfitHistory' = <<BaseLayer(url)>>
    /\ currentOutfitIndex' = 0
    /\ isUploadModalOpen' = FALSE
    /\ UNCHANGED pendingGarment

\* handleInitialTryOnFinalized(baseModelUrl, finalTryOnUrl, garmentInfo)
handleInitialTryOnFinalized(baseModelUrl, finalTryOnUrl, garmentInfo) ==
    /\ modelImageUrl' = baseModelUrl
    /\ outfitHistory' = <<BaseLayer(baseModelUrl), GarmentLayer(garmentInfo, 0, finalTryOnUrl)>>
    /\ currentOutfitIndex' = 1
    /\ pendingGarment' = NoGarment
    /\ isUploadModalOpen' = FALSE

\* The continuation of handleFileSelectForTryOn.
CreateCallDone(c, ok, raw) ==
    /\ c \in calls /\ c.kind = "create"
    /\ calls' = calls \ {c}
    /\ IF ok
       THEN /\ IF c.garment # NoGarment
               THEN handleInitialTryOnFinalized(BaseImageOf(c.id), ResultImageOf(c.id), c.garment)
               ELSE handleModelFinalized(ResultImageOf(c.id))
            /\ lastOp' = "create:ok"
            /\ UNCHANGED error
       ELSE /\ lastOp' = "create:failed"
            /\ error' = getFriendlyErrorMessage(raw, "failed to create your look")
            /\ UNCHANGED <<modelImageUrl, outfitHistory, currentOutfitIndex, pendingGarment,
                           isUploadModalOpen>>
    /\ isLoading' = FALSE
    /\ UNCHANGED <<currentPoseIndex, clicks, issued>>

Next ==
    \/ handleStartOver
    \/ handleRemoveLastGarment /\ UNCHANGED siteVars
    \/ \E item \in Garments : Len(clicks) < MaxClicks /\ handleGarmentClick(item) /\ UNCHANGED siteVars
    \/ \E k \in 1..MaxClicks : GarmentFileLoaded(k) /\ UNCHANGED siteVars
    \/ \E k \in 1..MaxClicks : GarmentFileFailed(k) /\ UNCHANGED siteVars
    \/ \E c \in calls, ok \in BOOLEAN, raw \in RawErrors : GarmentCallDone(c, ok, raw) /\ UNCHANGED siteVars
    \/ \E newIndex \in Poses : handlePoseSelect(newIndex) /\ UNCHANGED siteVars
    \/ \E c \in calls, ok \in BOOLEAN, raw \in RawErrors : PoseCallDone(c, ok, raw) /\ UNCHANGED siteVars
    \/ handleEnhanceImage /\ UNCHANGED siteVars
    \/ \E c \in calls, ok \in BOOLEAN, raw \in RawErrors : EnhanceCallDone(c, ok, raw) /\ UNCHANGED siteVars
    \/ OpenUploadModal /\ UNCHANGED siteVars
    \/ \E item \in Garments : handleTryOnFromPdp(item) /\ UNCHANGED siteVars
    \/ CloseUploadModal /\ UNCHANGED siteVars
    \/ handleFileSelectForTryOn /\ UNCHANGED siteVars
    \/ \E c \in calls, ok \in BOOLEAN, raw \in RawErrors : CreateCallDone(c, ok, raw) /\ UNCHANGED siteVars

Spec == Init /\ [][Next]_vars

\* The garment operations alone: model creation, handleGarmentClick /
\* handleGarmentSelect with their completions, and handleRemoveLastGarment,
\* with up to MaxQuickClicks clicks awaiting urlToFile at once.
NextGarments ==
    \/ handleRemoveLastGarment /\ UNCHANGED siteVars
    \/ \E item \in Garments : Len(clicks) < MaxQuickClicks /\ handleGarmentClick(item) /\ UNCHANGED siteVars
    \/ \E k \in 1..MaxQuickClicks : GarmentFileLoaded(k) /\ UNCHANGED siteVars
    \/ \E k \in 1..MaxQuickClicks : GarmentFileFailed(k) /\ UNCHANGED siteVars
    \/ \E c \in calls, ok \in BOOLEAN, raw \in RawErrors : GarmentCallDone(c, ok, raw) /\ UNCHANGED siteVars
    \/ OpenUploadModal /\ UNCHANGED siteVars
    \/ \E item \in Garments : handleTryOnFromPdp(item) /\ UNCHANGED siteVars
    \/ CloseUploadModal /\ UNCHANGED siteVars
    \/ handleFileSelectForTryOn /\ UNCHANGED siteVars
    \/ \E c \in calls, ok \in BOOLEAN, raw \in RawErrors : CreateCallDone(c, ok, raw) /\ UNCHANGED siteVars

SpecGarments == Init /\ [][NextGarments]_vars

\* ------------------------------------------------------------------ claims

\* A successful completion of a model creation: the timeline is reset.
IsModelCreated == \E c \in calls, raw \in RawErrors : CreateCallDone(c, TRUE, raw)

\* C1 (single-flight): in every reachable state at most one remote
\* generation call is outstanding.
C1_SingleFlight == Cardinality(calls) <= 1

\* C2 (cursor bounds): whenever outfitHistory is non-empty,
\* 0 <= currentOutfitIndex < outfitHistory.length.
C2_CursorBounds ==
    Len(outfitHistory) > 0 =>
        (0 <= currentOutfitIndex /\ currentOutfitIndex < Len(outfitHistory))

\* C3 (base layer): whenever outfitHistory is non-empty, layer 0 has a null
\* garment and every later layer has a garment.
C3_BaseLayer ==
    Len(outfitHistory) > 0 =>
        /\ outfitHistory[1].garment = NoGarment
        /\ \A k \in 2..Len(outfitHistory) : outfitHistory[k].garment # NoGarment

\* C4 (busy tracks the outstanding call): isLoading is true if and only if
\* a remote generation call is outstanding.
C4_BusyTracksCall == isLoading <=> (calls # {})

\* C5 (removeLastGarment is rejected while busy): a handleRemoveLastGarment
\* step taken while isLoading leaves the cursor, the pose cursor and the
\* history unchanged.
C5_RemoveRejectedWhileBusy ==
    [][(isLoading /\ handleRemoveLastGarment) =>
           UNCHANGED <<currentOutfitIndex, currentPoseIndex, outfitHistory>>]_vars

\* C6 (redo de-dup): when handleGarmentSelect runs for garment g while the
\* system is not busy and layer cursor+1 exists with garment g, the cursor
\* advances by exactly 1, the history is unchanged, Busy is not entered and
\* no remote call is issued.
C6_RedoDedup ==
    [][\A k \in 1..Len(clicks) :
          (/\ GarmentFileLoaded(k)
           /\ ~isLoading
           /\ HasLayer(outfitHistory, currentOutfitIndex + 1)
           /\ LayerAt(outfitHistory, currentOutfitIndex + 1).garment = clicks[k].item)
          => (/\ currentOutfitIndex' = currentOutfitIndex + 1
              /\ outfitHistory' = outfitHistory
              /\ ~isLoading'
              /\ calls' = calls
              /\ issued' = issued)]_vars

\* C7 (truncation on divergent selection): a successful completion of an
\* applyGarment(C) that was invoked at cursor k yields the old layers 0..k
\* unchanged followed by one new layer for C, nothing after it, and
\* cursor = k + 1.
C7_Truncation ==
    [][\A c \in calls, raw \in RawErrors :
          GarmentCallDone(c, TRUE, raw) =>
             (/\ Len(outfitHistory') = c.index + 2
              /\ Len(outfitHistory) >= c.index + 1
              /\ SubSeq(outfitHistory', 1, c.index + 1) = SubSeq(outfitHistory, 1, c.index + 1)
              /\ outfitHistory'[c.index + 2].garment = c.garment
              /\ currentOutfitIndex' = c.index + 1)]_vars

\* C8 (optimistic pose rollback): while a selectPose(n) call is outstanding
\* the pose cursor equals n; when the call fails the pose cursor returns to
\* its value from before the call, the error is non-null, busy is false and
\* the history is unchanged.
C8_PoseRollback ==
    /\ [](\A c \in calls : c.kind = "pose" => currentPoseIndex = c.pose)
    /\ [][\A c \in calls, raw \in RawErrors :
             PoseCallDone(c, FALSE, raw) =>
                (/\ currentPoseIndex' = c.prevPose
                 /\ error' # NoError
                 /\ ~isLoading'
                 /\ outfitHistory' = outfitHistory)]_vars

\* The enhanced image of a pose of a layer, and the steps that replace layer k.
EnhancedOf(layer, p) ==
    IF HasPose(layer.poseImages, p) THEN PoseEntry(layer.poseImages, p).enhanced ELSE NoImage
LayerReplaced(k) ==
    \/ handleStartOver
    \/ IsModelCreated
    \/ \E c \in calls, raw \in RawErrors : GarmentCallDone(c, TRUE, raw) /\ k > c.index + 1

\* C9 (enhancement monotonicity): an enhanced image of a layer stays set,
\* with the same value, across every step that keeps the layer; only a
\* truncating applyGarment (for the layers past its cursor) and a timeline
\* reset (start over, model creation) may remove it.
C9_EnhancementMonotone ==
    [][\A k \in 1..Len(outfitHistory), p \in Poses :
          (EnhancedOf(outfitHistory[k], p) # NoImage /\ ~LayerReplaced(k)) =>
              (/\ k <= Len(outfitHistory')
               /\ EnhancedOf(outfitHistory'[k], p) = EnhancedOf(outfitHistory[k], p))]_vars

\* ------------------------------------------------ displayImageUrl alone
\* The inputs of displayImageUrl drawn from bounded sets: a current layer
\* with no, one or several pose images in every insertion order, each with or
\* without an enhanced image, alone, above or below another layer, under a cursor in
\* or out of range, with the model image null, equal to the base layer's
\* image or different from every layer image.  The pose cursor and the cursor
\* then move by the synchronous operations, which recompute the memo.
InputStandard(k, p) == 10 * k + p + 1
InputEnhanced(k, p) == 100 + 10 * k + p + 1
PoseOrders ==
    UNION {{ps \in [1..n -> Poses] : \A i, j \in 1..n : i # j => ps[i] # ps[j]}
           : n \in 0..MaxPoseEntries}
InputLayer(k, g, ps, enhancedPoses) ==
    [garment |-> g,
     poseImages |-> [i \in 1..Len(ps) |->
                        [pose |-> ps[i], standard |-> InputStandard(k, ps[i]),
                         enhanced |-> IF ps[i] \in enhancedPoses
                                      THEN InputEnhanced(k, ps[i]) ELSE NoImage]]]
InputHistories ==
    UNION {{<<InputLayer(1, NoGarment, ps, e)>>,
            <<InputLayer(1, NoGarment, <<0>>, {}), InputLayer(2, 1, ps, e)>>,
            <<InputLayer(1, NoGarment, ps, e), InputLayer(2, 1, <<0>>, {})>>}
           : ps \in PoseOrders, e \in SUBSET Poses}

InitDisplay ==
    /\ modelImageUrl \in {NoImage, InputStandard(1, 0), InputStandard(0, 0)}
    /\ outfitHistory \in InputHistories
    /\ currentOutfitIndex \in 0..2
    /\ currentPoseIndex \in Poses
    /\ isLoading = FALSE
    /\ error = NoError
    /\ pendingGarment = NoGarment
    /\ isUploadModalOpen = FALSE
    /\ calls = {}
    /\ clicks = <<>>
    /\ issued = MaxCalls
    /\ lastOp = "init"
    /\ InitSite
    /\ wishlist = <<>>

NextDisplay ==
    \/ \E newIndex \in Poses : handlePoseSelect(newIndex) /\ UNCHANGED siteVars
    \/ handleRemoveLastGarment /\ UNCHANGED siteVars

SpecDisplay == InitDisplay /\ [][NextDisplay]_vars

\* The pose images under the cursor (none when the cursor is on no layer).
CurrentPoseImages ==
    IF HasLayer(outfitHistory, currentOutfitIndex)
    THEN LayerAt(outfitHistory, currentOutfitIndex).poseImages
    ELSE <<>>
\* The images the layer under the cursor holds itself.
OwnImages ==
    ({CurrentPoseImages[k].standard : k \in 1..Len(CurrentPoseImages)}
        \cup {CurrentPoseImages[k].enhanced : k \in 1..Len(CurrentPoseImages)}) \ {NoImage}
\* The order of the chain for a requested pose p.
FallbackChain(p) ==
    LET r    == DisplayImage(modelImageUrl, outfitHistory, currentOutfitIndex, p)
        pi   == CurrentPoseImages
        mine == {k \in 1..Len(pi) : pi[k].pose = p}
    IN  /\ (\E k \in mine : pi[k].enhanced # NoImage)
              => \E k \in mine : r = pi[k].enhanced
        /\ (mine # {} /\ \A k \in mine : pi[k].enhanced = NoImage)
              => \E k \in mine : r = pi[k].standard
        /\ (mine = {} /\ Len(pi) > 0)
              => \E k \in 1..Len(pi) : pi[k].pose # p /\ r = pi[k].standard
        /\ Len(pi) = 0 => r = modelImageUrl

\* C10 as stated: the chain, and the result is never the base model image
\* while the current layer has at least one pose image.
C10_NeverModelImage ==
    Len(outfitHistory) > 0 =>
        \A p \in Poses :
            /\ FallbackChain(p)
            /\ Len(CurrentPoseImages) > 0 =>
                  DisplayImage(modelImageUrl, outfitHistory, currentOutfitIndex, p)
                      # modelImageUrl

\* C10 (pose fallback chain), amended: for a non-empty history and every
\* requested pose, displayImageUrl is the current layer's enhanced image for
\* that pose if it has one, else that pose's standard image, else the
\* standard image of another pose the layer does have, and the model image
\* when there are no pose images under the cursor; while the current layer
\* has at least one pose image the result is always one of that layer's own
\* images (which on layer 0 is the same URL as the model image).  The
\* evaluation is defined on every input.
C10_PoseFallbackChain ==
    Len(outfitHistory) > 0 =>
        \A p \in Poses :
            /\ FallbackChain(p)
            /\ Len(CurrentPoseImages) > 0 =>
                  DisplayImage(modelImageUrl, outfitHistory, currentOutfitIndex, p)
                      \in OwnImages

\* C10 witness: after a removeLastGarment reset the pose cursor to 0, the
\* current layer has no image for pose 0 but has one for another pose, and
\* the displayed image is that pose's standard image, not the model image.
C10_Witness ==
    /\ lastOp = "remove"
    /\ HasLayer(outfitHistory, currentOutfitIndex)
    /\ LET pi == LayerAt(outfitHistory, currentOutfitIndex).poseImages
       IN  /\ ~HasPose(pi, currentPoseIndex)
           /\ Len(pi) > 0
           /\ displayImageUrl = pi[1].standard
           /\ displayImageUrl # modelImageUrl

\* ------------------------------------------------------- completions
\* Some outstanding remote call settles and its handler's continuation runs.
CallCompletes ==
    \E c \in calls, ok \in BOOLEAN, raw \in RawErrors :
        \/ GarmentCallDone(c, ok, raw)
        \/ PoseCallDone(c, ok, raw)
        \/ EnhanceCallDone(c, ok, raw)
        \/ CreateCallDone(c, ok, raw)

\* Every remote call settles: a promise that was awaited is resumed.
SpecLive == Init /\ [][Next]_vars /\ WF_vars(CallCompletes /\ UNCHANGED siteVars)

\* C11 (busy always exits): the continuation of every remote call, on
\* success and on failure, ends with isLoading false; and since every call
\* settles, every state with isLoading true is followed by one with
\* isLoading false.
C11_BusyExits ==
    /\ [][CallCompletes => ~isLoading']_vars
    /\ (isLoading ~> ~isLoading)

\* C11 witness: a failed call has just completed out of a busy state and
\* isLoading is false.
C11_Witness ==
    /\ lastOp \in {"garment:failed", "pose:failed", "enhance:failed", "create:failed"}
    /\ ~isLoading
    /\ error # NoError

\* The pose entries of a layer other than the one for pose p.
OtherPoseEntries(layer, p) ==
    {layer.poseImages[k] : k \in {j \in 1..Len(layer.poseImages) : layer.poseImages[j].pose # p}}

\* C12 (pose patch targets the current layer only): a successful completion
\* of a selectPose call changes no layer other than the one under the cursor
\* at the time of the completion, and on that layer changes only the entry
\* of the selected pose.
C12_PosePatchCurrentLayer ==
    [][\A c \in calls, raw \in RawErrors :
          PoseCallDone(c, TRUE, raw) =>
             /\ Len(outfitHistory') = Len(outfitHistory)
             /\ \A k \in 1..Len(outfitHistory) :
                   IF k - 1 # currentOutfitIndex
                   THEN outfitHistory'[k] = outfitHistory[k]
                   ELSE /\ outfitHistory'[k].garment = outfitHistory[k].garment
                        /\ OtherPoseEntries(outfitHistory'[k], c.pose)
                              = OtherPoseEntries(outfitHistory[k], c.pose)]_vars

\* The values handleStartOver leaves in the five session variables.
ResetState ==
    /\ outfitHistory = <<>>
    /\ currentOutfitIndex = 0
    /\ currentPoseIndex = 0
    /\ error = NoError
    /\ modelImageUrl = NoImage

\* C13 (start-over reset is durable): handleStartOver leaves the history
\* empty, both cursors 0, the error null and the model image null, and from
\* such a state every step other than the start of a model creation and the
\* completion of a creation started since keeps all five values, the
\* completions of calls issued before the start over included.
C13_StartOverDurable ==
    /\ [][handleStartOver => ResetState']_vars
    /\ [][(/\ ResetState
           /\ \A c \in calls : c.kind # "create"
           /\ ~handleFileSelectForTryOn) => ResetState']_vars

\* The outcomes (lastOp) of a step in which an action completed successfully,
\* and of a step in which nothing succeeded and nothing was dismissed or begun.
SuccessfulOps == {"garment:ok", "pose:ok", "enhance:ok", "create:ok",
                  "garment:redo", "pose:hit", "remove"}
FruitlessOps == {"garment:rejected", "pose:rejected", "enhance:rejected",
                 "pose:throw", "enhance:throw", "remove:throw", "remove:noop",
                 "click", "click:failed",
                 "garment:failed", "pose:failed", "enhance:failed", "create:failed"}

\* C14 (error lifetime): a non-null error stays non-null across every step
\* in which no action succeeds, none begins and nothing is dismissed; and
\* after every successfully completed action, the synchronous ones (redo,
\* cache-hit selectPose, removeLastGarment) included, the error is null.
C14_ErrorLifetime ==
    /\ [][(error # NoError /\ lastOp' \in FruitlessOps) => error' # NoError]_vars
    /\ [][lastOp' \in SuccessfulOps => error' = NoError]_vars

\* C15 (applyGarment failure changes nothing but the error): when a
\* compose-garment call fails, after its completion the cursor and the pose
\* cursor have the values they had when the call was issued, the completion
\* leaves the history as it was, isLoading is false and the error is a
\* non-null message.
C15_GarmentFailure ==
    [][\A c \in calls, raw \in RawErrors :
          GarmentCallDone(c, FALSE, raw) =>
             /\ outfitHistory' = outfitHistory
             /\ currentOutfitIndex' = c.liveIndex
             /\ currentPoseIndex' = c.livePose
             /\ ~isLoading'
             /\ error' # NoError]_vars

\* C16 (pose cursor is 0 on a fresh model): in the state right after
\* handleModelFinalized or handleInitialTryOnFinalized committed the new
\* history, currentPoseIndex is 0.
C16_FreshModelPoseZero ==
    [][IsModelCreated => currentPoseIndex' = 0]_vars

\* The steps that select a pose: a cache hit, the optimistic write of a
\* remote selection and its rollback on failure.
PoseSelectionOps == {"pose:hit", "pose:call", "pose:failed"}

C18_CommitUnderCursor ==
    [][\A c \in calls, raw \in RawErrors :
          GarmentCallDone(c, TRUE, raw) =>
             /\ currentOutfitIndex' = Len(outfitHistory') - 1
             /\ HasLayer(outfitHistory', currentOutfitIndex')
             /\ LayerAt(outfitHistory', currentOutfitIndex').garment = c.garment]_vars

\* C19 (new layer is keyed by the current pose): the layer appended by a
\* successful non-redo applyGarment has exactly one pose entry, for the pose
\* at currentPoseIndex, with a standard image and no enhanced image, and
\* currentPoseIndex is what it was when the operation began.
C19_NewLayerKeyedByPose ==
    [][\A c \in calls, raw \in RawErrors :
          GarmentCallDone(c, TRUE, raw) =>
             LET newLayer == outfitHistory'[Len(outfitHistory')]
             IN  /\ newLayer.garment = c.garment
                 /\ Len(newLayer.poseImages) = 1
                 /\ newLayer.poseImages[1].pose = currentPoseIndex'
                 /\ newLayer.poseImages[1].standard # NoImage
                 /\ newLayer.poseImages[1].enhanced = NoImage
                 /\ currentPoseIndex' = c.livePose]_vars

\* C20 (removeLastGarment effect): with cursor > 0 and not busy,
\* handleRemoveLastGarment decrements the cursor by exactly 1, sets the pose
\* cursor to 0, issues no remote call and leaves the history, with every
\* layer past the new cursor, unchanged; with cursor = 0 it changes nothing.
C20_RemoveEffect ==
    [][handleRemoveLastGarment =>
          /\ (currentOutfitIndex > 0 /\ ~isLoading) =>
                /\ currentOutfitIndex' = currentOutfitIndex - 1
                /\ currentPoseIndex' = 0
                /\ UNCHANGED <<outfitHistory, calls, issued, isLoading>>
          /\ currentOutfitIndex = 0 =>
                UNCHANGED <<outfitHistory, currentOutfitIndex, currentPoseIndex,
                            calls, issued, isLoading, error, modelImageUrl>>]_vars

\* The garment of the layer right after the cursor (the one a redo restores).
NextLayerGarment ==
    IF HasLayer(outfitHistory, currentOutfitIndex + 1)
    THEN LayerAt(outfitHistory, currentOutfitIndex + 1).garment
    ELSE NoGarment

C22_PoseCacheHit ==
    [][\A n \in Poses :
          handlePoseSelect(n) =>
             /\ (/\ ~isLoading
                 /\ Len(outfitHistory) > 0
                 /\ n # currentPoseIndex
                 /\ HasLayer(outfitHistory, currentOutfitIndex)
                 /\ HasPose(LayerAt(outfitHistory, currentOutfitIndex).poseImages, n)) =>
                    /\ currentPoseIndex' = n
                    /\ ~isLoading'
                    /\ calls' = calls
                    /\ issued' = issued
                    /\ UNCHANGED <<outfitHistory, currentOutfitIndex>>
             /\ n = currentPoseIndex =>
                    UNCHANGED <<modelImageUrl, outfitHistory, currentOutfitIndex, isLoading,
                                error, currentPoseIndex, calls, issued>>]_vars

\* C22 witness: a cache hit has just moved the pose cursor to a pose other
\* than 0 that the current layer holds, with no call in flight and not busy.
C22_Witness ==
    /\ lastOp = "pose:hit"
    /\ currentPoseIndex # 0
    /\ ~isLoading
    /\ calls = {}
    /\ HasLayer(outfitHistory, currentOutfitIndex)
    /\ HasPose(LayerAt(outfitHistory, currentOutfitIndex).poseImages, currentPoseIndex)

\* A history with every enhanced image blanked: what is left are the layers,
\* their garments, their pose entries and the standard images.
WithoutEnhanced(h) ==
    [k \in 1..Len(h) |->
        [h[k] EXCEPT !.poseImages =
            [j \in 1..Len(h[k].poseImages) |->
                [h[k].poseImages[j] EXCEPT !.enhanced = NoImage]]]]

\* Every pose entry that has an enhanced image has a standard image.
EnhancedHasStandard ==
    \A k \in 1..Len(outfitHistory) : \A j \in 1..Len(outfitHistory[k].poseImages) :
        outfitHistory[k].poseImages[j].enhanced # NoImage
            => outfitHistory[k].poseImages[j].standard # NoImage

\* C23 (enhancement requires a standard image): every pose entry with an
\* enhanced image has a standard image; a successful enhance completion
\* changes nothing but enhanced images, and only that of the current
\* layer's entry for the current pose; when the current layer has no entry
\* for the current pose the completion leaves the history unchanged.
C23_EnhanceNeedsStandard ==
    /\ []EnhancedHasStandard
    /\ [][\A c \in calls, raw \in RawErrors :
             EnhanceCallDone(c, TRUE, raw) =>
                /\ WithoutEnhanced(outfitHistory') = WithoutEnhanced(outfitHistory)
                /\ \A k \in 1..Len(outfitHistory), p \in Poses :
                      EnhancedOf(outfitHistory'[k], p) # EnhancedOf(outfitHistory[k], p)
                         => (k - 1 = currentOutfitIndex /\ p = currentPoseIndex)
                /\ ~(/\ HasLayer(outfitHistory, currentOutfitIndex)
                     /\ HasPose(LayerAt(outfitHistory, currentOutfitIndex).poseImages,
                                currentPoseIndex))
                      => outfitHistory' = outfitHistory]_vars

\* C24 (model creation result): a successful creation without a garment
\* sets the history to exactly one base layer keyed pose 0 holding the
\* result image, with cursor 0; a successful creation with a garment sets it
\* to exactly that base layer followed by a garment layer keyed pose 0 that
\* holds the composed image, with cursor 1; a failed creation leaves the
\* history empty, sets a non-null error and exits Busy.
C24_ModelCreationResult ==
    [][\A c \in calls, raw \in RawErrors :
          /\ (CreateCallDone(c, TRUE, raw) /\ c.garment = NoGarment) =>
                /\ outfitHistory' =
                      <<[garment |-> NoGarment,
                         poseImages |-> <<[pose |-> 0, standard |-> ResultImageOf(c.id),
                                           enhanced |-> NoImage]>>]>>
                /\ modelImageUrl' = ResultImageOf(c.id)
                /\ currentOutfitIndex' = 0
                /\ ~isLoading'
          /\ (CreateCallDone(c, TRUE, raw) /\ c.garment # NoGarment) =>
                /\ outfitHistory' =
                      <<[garment |-> NoGarment,
                         poseImages |-> <<[pose |-> 0, standard |-> BaseImageOf(c.id),
                                           enhanced |-> NoImage]>>],
                        [garment |-> c.garment,
                         poseImages |-> <<[pose |-> 0, standard |-> ResultImageOf(c.id),
                                           enhanced |-> NoImage]>>]>>
                /\ modelImageUrl' = BaseImageOf(c.id)
                /\ currentOutfitIndex' = 1
                /\ ~isLoading'
          /\ CreateCallDone(c, FALSE, raw) =>
                /\ outfitHistory' = <<>>
                /\ error' # NoError
                /\ ~isLoading']_vars

\* C25 (non-empty layers): every layer of outfitHistory has at least one
\* pose entry and every pose entry has a standard image.
C25_NonEmptyLayers ==
    \A k \in 1..Len(outfitHistory) :
        /\ Len(outfitHistory[k].poseImages) >= 1
        /\ \A j \in 1..Len(outfitHistory[k].poseImages) :
              outfitHistory[k].poseImages[j].standard # NoImage

\* C25 witness: a history of a base layer and a garment layer in which one
\* layer has gained a second pose entry and one entry an enhanced image.
C25_Witness ==
    /\ Len(outfitHistory) >= 2
    /\ \E k \in 1..Len(outfitHistory) : Len(outfitHistory[k].poseImages) >= 2
    /\ \E k \in 1..Len(outfitHistory) : \E j \in 1..Len(outfitHistory[k].poseImages) :
          outfitHistory[k].poseImages[j].enhanced # NoImage

\* ------------------------------------------- getFriendlyErrorMessage alone
\* The inputs of the classifier drawn from bounded sets: every message of up
\* to MaxMessageTokens fragments, thrown as an Error, as a string or as
\* another truthy value, and a falsy value.  Each initial state has one
\* remote call in flight, of each of the four kinds, that rejects with one
\* of these values; its handler's catch block classifies it.
Messages == UNION {[1..n -> MessageTokens] : n \in 0..MaxMessageTokens}
ThrownValues ==
    {[type |-> t, text |-> m] : t \in {"Error", "string", "object"}, m \in Messages}
        \cup {[type |-> "nullish", text |-> <<>>]}

InFlight(kind, thrown) ==
    [id |-> 2, kind |-> kind,
     garment |-> IF kind = "garment" THEN 1 ELSE NoGarment,
     index |-> 0,
     pose |-> IF kind = "pose" THEN 1 ELSE 0,
     prevPose |-> 0,
     input |-> IF kind = "create" THEN NoImage ELSE ResultImageOf(1),
     liveIndex |-> 0, livePose |-> 0, thrown |-> thrown]

InitClassify ==
    \E kind \in {"garment", "pose", "enhance", "create"}, thrown \in ThrownValues :
        /\ modelImageUrl = IF kind = "create" THEN NoImage ELSE ResultImageOf(1)
        /\ outfitHistory = IF kind = "create" THEN <<>> ELSE <<BaseLayer(ResultImageOf(1))>>
        /\ currentOutfitIndex = 0
        /\ isLoading = TRUE
        /\ error = NoError
        /\ currentPoseIndex = IF kind = "pose" THEN 1 ELSE 0
        /\ pendingGarment = NoGarment
        /\ isUploadModalOpen = (kind = "create")
        /\ calls = {InFlight(kind, thrown)}
        /\ clicks = <<>>
        /\ issued = 2
        /\ lastOp = "init"
        /\ InitSite
        /\ wishlist = <<>>

NextClassify ==
    \/ \E c \in calls : GarmentCallDone(c, FALSE, c.thrown) /\ UNCHANGED siteVars
    \/ \E c \in calls : PoseCallDone(c, FALSE, c.thrown) /\ UNCHANGED siteVars
    \/ \E c \in calls : EnhanceCallDone(c, FALSE, c.thrown) /\ UNCHANGED siteVars
    \/ \E c \in calls : CreateCallDone(c, FALSE, c.thrown) /\ UNCHANGED siteVars

SpecClassify == InitClassify /\ [][NextClassify]_vars

\* The five kinds, the four with substring tests in the order of precedence,
\* what each looks for, and the kind a returned text stands for.
KindOrder == <<"RateLimited", "UnsupportedInput", "SafetyRejected", "ModelRefused">>
NeedlesOf(kind) ==
    CASE kind = "RateLimited" -> {"quota", "rate limit", "429"}
      [] kind = "UnsupportedInput" -> {"unsupported mime type"}
      [] kind = "SafetyRejected" -> {"blocked", "safety"}
      [] kind = "ModelRefused" -> {"model did not return an image"}
KindOfText(text) ==
    CASE text = "high demand" -> "RateLimited"
      [] text \in {"'image/x' is not supported", "this file type is not supported"}
            -> "UnsupportedInput"
      [] text = "blocked for safety" -> "SafetyRejected"
      [] text = "could not create an image" -> "ModelRefused"
      [] OTHER -> "Unknown"
\* Kind k matches a message when some fragment, compared without regard to
\* case, is one of the substrings of k.
KindMatches(k, msg) ==
    \E i \in 1..Len(msg) : LowerToken(msg[i]) \in NeedlesOf(KindOrder[k])
ExpectedKind(msg) ==
    IF \E k \in 1..Len(KindOrder) : KindMatches(k, msg)
    THEN KindOrder[CHOOSE k \in 1..Len(KindOrder) :
                      /\ KindMatches(k, msg)
                      /\ \A j \in 1..(k - 1) : ~KindMatches(j, msg)]
    ELSE "Unknown"

\* C26 (error classification is total and ordered): whatever a remote call
\* rejects with, the stored error is a non-empty text of exactly the kind of
\* the first of RateLimited, UnsupportedInput, SafetyRejected, ModelRefused
\* whose substrings occur in the message, compared case-insensitively, and
\* of kind Unknown only when none occurs.
C26_ErrorClassification ==
    [][\A c \in calls :
          (c \notin calls' /\ "thrown" \in DOMAIN c) =>
             /\ error' # ""
             /\ error' # NoError
             /\ KindOfText(error') = ExpectedKind(c.thrown.text)]_vars

\* C26 witness: a rejection whose message names the MIME type in mixed
\* case has been classified as UnsupportedInput, with the type extracted.
C26_Witness ==
    /\ lastOp \in {"garment:failed", "pose:failed", "enhance:failed", "create:failed"}
    /\ error = "'image/x' is not supported"
    /\ calls = {}
    /\ ~isLoading

\* C27 (displayed pose matches the pose label when idle): whenever isLoading
\* is false and the history is non-empty, the layer under the cursor has a
\* standard image for the pose at currentPoseIndex.
C27_IdlePoseAvailable ==
    (~isLoading /\ Len(outfitHistory) > 0) =>
        /\ HasLayer(outfitHistory, currentOutfitIndex)
        /\ HasPose(LayerAt(outfitHistory, currentOutfitIndex).poseImages, currentPoseIndex)

\* C28 (no garment is worn twice): the garments of the active layers
\* outfitHistory[0..currentOutfitIndex] are pairwise distinct.
C28_NoGarmentTwice ==
    \A i, j \in 1..Len(activeOutfitLayers) :
        (/\ i # j
         /\ activeOutfitLayers[i].garment # NoGarment
         /\ activeOutfitLayers[j].garment # NoGarment)
            => activeOutfitLayers[i].garment # activeOutfitLayers[j].garment

\* --------------------------------------------------- navigation claims

\* The main site alone: navigation by the links, product selection, browser
\* routing events and the Back buttons, with no model created.
NextNav ==
    \/ \E page \in Pages \ {"pdp"} : handleNavigate(page) /\ UNCHANGED tryOnVars
    \/ \E item \in Garments : handleProductSelect(item) /\ UNCHANGED tryOnVars
    \/ \E url \in Locations : handleRouting(url) /\ UNCHANGED tryOnVars
    \/ Back /\ UNCHANGED tryOnVars

SpecNav == Init /\ [][NextNav]_vars

\* C29 (Back always leaves a static page): in every reachable navigation
\* state previousPage is one of 'home', 'women', 'men', and wherever a Back
\* button is rendered (About, Privacy, Terms, the product-details page)
\* handleNavigate(previousPage) lands on a page other than the current one.
C29_BackLeavesPage ==
    /\ previousPage \in {"home", "women", "men"}
    /\ BackShown =>
         PdpLoadEffect(Navigated(Site, previousPage)).currentPage # currentPage

\* ----------------------------------------------------- wishlist claims

\* The duplicate-free lists over WishlistIds.
DuplicateFree(list) ==
    \A i, j \in 1..Len(list) : list[i] = list[j] => i = j
DuplicateFreeLists ==
    {list \in UNION {[1..n -> WishlistIds] : n \in 0..MaxStoredWishlist} :
        DuplicateFree(list)}
Members(list) == {list[i] : i \in 1..Len(list)}

\* The wishlist alone, read from localStorage as any duplicate-free list of
\* up to MaxStoredWishlist ids.
InitWishlist ==
    /\ modelImageUrl = NoImage
    /\ outfitHistory = <<>>
    /\ currentOutfitIndex = 0
    /\ isLoading = FALSE
    /\ error = NoError
    /\ currentPoseIndex = 0
    /\ pendingGarment = NoGarment
    /\ isUploadModalOpen = FALSE
    /\ calls = {}
    /\ clicks = <<>>
    /\ issued = 0
    /\ lastOp = "init"
    /\ InitSite
    /\ wishlist \in DuplicateFreeLists

NextWishlist ==
    \E productId \in WishlistIds : toggleWishlist(productId) /\ UNCHANGED tryOnVars

SpecWishlist == InitWishlist /\ [][NextWishlist]_vars

\* C30 (wishlist is a set with an involutive toggle): starting from a
\* duplicate-free list, after any sequence of toggleWishlist calls no product
\* id occurs twice in the wishlist; toggleWishlist(p) flips the membership
\* of p and of no other id; and toggleWishlist(p) applied twice restores the
\* membership of every id.
C30_WishlistToggle ==
    /\ [](DuplicateFree(wishlist))
    /\ [][\A p \in WishlistIds :
            toggleWishlist(p) =>
              /\ (p \in Members(wishlist')) = (p \notin Members(wishlist))
              /\ Members(wishlist') \ {p} = Members(wishlist) \ {p}]_vars
    /\ [](\A p \in WishlistIds :
            Members(toggleWishlistUpdater(toggleWishlistUpdater(wishlist, p), p))
              = Members(wishlist))
\* A list longer than any stored one, so that toggleWishlist has added to
\* it, on which a further id is toggled in and out again.
C30_Witness ==
    /\ Len(wishlist) > MaxStoredWishlist
    /\ \E p \in WishlistIds :
         /\ ~includesId(wishlist, p)
         /\ includesId(toggleWishlistUpdater(wishlist, p), p)
         /\ toggleWishlistUpdater(toggleWishlistUpdater(wishlist, p), p) = wishlist

====
